---- MODULE Spec2Model ----
(***************************************************************************)
(* Model of musiclip.                                                      *)
(*                                                                         *)
(* Catalogue builder (services/catalogue-builder/build_catalogue.py): the  *)
(* playlist driver process_playlist, the single-song driver                *)
(* process_single_song, the command line main, the per-track pipeline      *)
(* process_song and the collaborator wrappers it calls (catalog client,    *)
(* audio fetcher/transcoder, object store, embedding client, vector        *)
(* index).  Spec is the builder called through process_playlist, SpecCli   *)
(* the builder started from the command line, SpecCalls the functions of   *)
(* the builder called on their own.                                        *)
(*                                                                         *)
(* Query service (services/backend/server.py and                           *)
(* services/query-client/query.py): the handlers of /query/text and        *)
(* /query/similar over a collection the builder filled (SpecQuery), the    *)
(* two implementations answering the same request side by side            *)
(* (SpecServices), and two handler calls in flight at the same time over   *)
(* one index (SpecConcurrent).                                             *)
(*                                                                         *)
(* Collaborators are external: every call to one of them is an action      *)
(* whose outcome (a value, an error status, an exception) is chosen with   *)
(* \E.  Text is modelled as a sequence of tokens, so that f-strings are    *)
(* concatenations and "the message mentions w" is a membership test.       *)
(* os.unlink of an existing file removes it; of a missing file it raises.  *)
(***************************************************************************)
EXTENDS Integers, Sequences, FiniteSets, TLC

\* ------------------------------------------------------------------ bounds
MaxTracks == 2
MaxRuns == 2
\* temporary files left behind by earlier calls (they stay for ever)
MaxLeaked == 1

\* ------------------------------------------------------------- input sets
TrackIds == {"A", "B"}
Vectors == {"v1", "v2"}
\* str(e) of an exception raised by a collaborator (it may be empty)
ErrTexts == {<<>>, <<"timeout">>}
\* stderr of the transcoder
StderrTexts == {<<>>, <<"Invalid", "data">>}

None == "None"
EmptyDict == [k \in {} |-> None]

\* dict.get(k, default)
Get(d, k, default) == IF k \in DOMAIN d THEN d[k] ELSE default

HTTP_OK == "200"
StatusCodes == {"200", "404"}

\* ------------------------------------------------------- catalog payloads
\* attributes of a song resource, with and without a usable preview
AttrsWithPreview ==
    { [name |-> "n1", albumName |-> "al1", artistName |-> "ar1",
       releaseDate |-> "d1", genreNames |-> <<"g1", "g2">>,
       previews |-> <<[url |-> "u1"]>>],
      [name |-> "n2", previews |-> <<[url |-> "u2"]>>] }

AttrsNoPreview ==
    { [name |-> "n1"],
      [name |-> "n1", previews |-> <<>>],
      [name |-> "n1", previews |-> <<[hlsUrl |-> "h1"]>>],
      [name |-> "n1", previews |-> <<[url |-> ""]>>] }

SongResources(id) ==
    { [id |-> id, attributes |-> a] : a \in AttrsWithPreview \cup AttrsNoPreview }
      \cup { [id |-> id] }

SongPayloads(id) ==
    { [data |-> <<s>>] : s \in SongResources(id) }
      \cup { [data |-> <<>>], [errors |-> "e"] }

\* what requests.get / response.json() do for one catalog request
CatalogExchanges(payloads) ==
    { [kind |-> "response", status_code |-> c, data |-> p] :
          c \in StatusCodes, p \in payloads }
      \* requests.get raised (no status arrived), or response.json() raised the
      \* JSONDecodeError of requests >= 2.27, a RequestException
      \cup { [kind |-> "RequestException", status_code |-> c, err |-> e] :
                 c \in StatusCodes \cup {None}, e \in ErrTexts }
      \* response.json() raised the ValueError of older requests on a body
      \* that is not JSON
      \cup { [kind |-> "Exception", status_code |-> c, err |-> e] :
                 c \in StatusCodes, e \in ErrTexts }

TrackLists ==
    UNION { [1..n -> { [id |-> t] : t \in TrackIds }] : n \in 0..MaxTracks }

PlaylistResources ==
    { [id |-> "pl", relationships |-> [tracks |-> [data |-> l]]] : l \in TrackLists }
      \cup { [id |-> "pl"],
             [id |-> "pl", relationships |-> [curator |-> "c"]],
             [id |-> "pl", relationships |-> [tracks |-> [href |-> "h"]]] }

PlaylistPayloads ==
    { [data |-> <<p>>] : p \in PlaylistResources }
      \cup { [data |-> <<>>], [errors |-> "e"] }

\* ---------------------------------------------------------- catalog client
\* get_catalog_song: a tagged result, or the exception it lets through
get_catalog_song(x) ==
    IF x.kind = "response"
    THEN [raised |-> FALSE, success |-> (x.status_code = HTTP_OK),
          status_code |-> x.status_code, data |-> x.data]
    ELSE IF x.kind = "RequestException"
    THEN [raised |-> FALSE, success |-> FALSE, status_code |-> None,
          data |-> [error |-> x.err]]
    ELSE [raised |-> TRUE, err |-> x.err]

get_catalog_playlist(x) ==
    IF x.kind = "response"
    THEN [raised |-> FALSE, success |-> (x.status_code = HTTP_OK),
          status_code |-> x.status_code, data |-> x.data]
    ELSE IF x.kind = "RequestException"
    THEN [raised |-> FALSE, success |-> FALSE, status_code |-> None,
          data |-> [error |-> x.err]]
    ELSE [raised |-> TRUE, err |-> x.err]

\* ------------------------------------------------------------------ state
VARIABLES
    index,          \* the collection "music_embeddings": records [id, embedding, metadata]
    bucket,         \* whether MINIO_BUCKET exists
    objects,        \* object names held by the bucket
    fs,             \* temporary files that exist, <<suffix, serial>>
    temp_m4a,       \* download_and_convert_preview: temp_m4a.name
    temp_wav,       \* download_and_convert_preview: temp_wav.name
    pc,             \* position of the catalogue builder
    runs,           \* process_playlist invocations so far
    skip_existing,  \* parameter of the current run
    track_list,     \* the fetched track list
    i,              \* tracks of track_list whose result has been counted
    processed, skipped, failed,
    pl_result,      \* what process_playlist returned
    setup_failure,  \* which setup stage made the run fail ("none" otherwise)
    track_id,       \* process_song: the track being processed
    song_result,    \* process_song: what get_catalog_song returned
    attributes,     \* process_song: the song's attributes
    ffmpeg_result,  \* download_and_convert_preview: returncode and stderr of ffmpeg
    convert_result, \* what download_and_convert_preview returned
    embedding,      \* embed_result['embedding']
    result,         \* what process_song returned
    steps,          \* collaborator steps made for the current track, in order
    visited,        \* track ids process_song was called with, in order, this run
    index0,         \* the collection as it was when process_song was called
    config,         \* APPLE_KEY_ID set, APPLE_TEAM_ID set, APPLE_KEY_PATH exists
    caller,         \* the function that runs: process_playlist or process_single_song
    args,           \* main: the parsed command line
    exit_code,      \* main: the exit status of the process
    call,           \* a function of the builder called on its own: name and arguments
    ret,            \* what that call returned
    request,        \* query service: the request being served
    qpc,            \* query service: position of the handler
    lookup_result,  \* query_music_by_id: what collection.get returned
    query_embedding,\* the vector the index is queried with
    raw_results,    \* what collection.query returned
    response,       \* the HTTP answer of the handler
    handlers        \* query service: the handler calls in flight at the same time

vars == <<index, bucket, objects, fs, temp_m4a, temp_wav, pc, runs, skip_existing, track_list, i,
          processed, skipped, failed, pl_result, setup_failure, track_id,
          song_result, attributes, ffmpeg_result, convert_result, embedding, result, steps, visited, index0,
          config, caller, args, exit_code,
          call, ret, request, qpc, lookup_result, query_embedding, raw_results, response,
          handlers>>

persistent == <<index, bucket, objects, fs, temp_m4a, temp_wav>>
counters == <<processed, skipped, failed>>
run_locals == <<runs, skip_existing, track_list, i, visited>>
song_locals == <<track_id, song_result, attributes, ffmpeg_result, convert_result,
                 embedding, index0>>
temp_names == <<temp_m4a, temp_wav>>
\* the variables of the playlist run
builder_vars == <<index, bucket, objects, fs, temp_m4a, temp_wav, pc, runs, skip_existing,
                  track_list, i, processed, skipped, failed, pl_result, setup_failure,
                  track_id, song_result, attributes, ffmpeg_result, convert_result,
                  embedding, result, steps, visited, index0,
                  config, caller, args, exit_code>>
\* the variables of a function called on its own
call_vars == <<call, ret>>
\* what a step of the playlist run leaves alone
outside_builder == <<args, exit_code, call, ret, request, qpc, lookup_result, query_embedding, raw_results,
                     response, handlers>>
\* the variables of the query service
query_vars == <<request, qpc, lookup_result, query_embedding, raw_results, response,
                handlers>>
\* what a step of a handler call in flight leaves alone, the index apart
beside_handlers == <<bucket, objects, fs, temp_names, pc, run_locals, counters, pl_result,
                     setup_failure, song_locals, result, steps, config, caller, args,
                     exit_code, call_vars, request, qpc, lookup_result, query_embedding,
                     raw_results, response>>

NoResult == [status |-> "none", message |-> <<>>]
NoConvert == [success |-> FALSE, wav_path |-> None, message |-> <<>>]
NoPlaylistResult == [success |-> FALSE, message |-> <<>>]
NoSongResult == [raised |-> FALSE, success |-> FALSE, status_code |-> None,
                 data |-> EmptyDict]
\* a temp-file variable that is not bound
NoName == <<>>
NoFfmpegResult == [returncode |-> None, stderr |-> <<>>]
NoArgs == [playlist_id |-> FALSE, song_id |-> None, no_skip_existing |-> FALSE]
\* the environment of a run: complete, or with one of the three settings missing
Configs ==
    { c \in [key_id : BOOLEAN, team_id : BOOLEAN, key_file : BOOLEAN] :
        Cardinality({ k \in {"key_id", "team_id", "key_file"} : ~c[k] }) <= 1 }
Configured == [key_id |-> TRUE, team_id |-> TRUE, key_file |-> TRUE]
NoCall == [fn |-> None]
NoRet == [done |-> FALSE]
NoRequest == [endpoint |-> None]
NoLookup == [raised |-> FALSE, ids |-> <<>>, embeddings |-> <<>>]
NoResults == [ids |-> <<>>, distances |-> <<>>, metadatas |-> <<>>]
NoResponse == [status |-> None]

\* the stores before the first run
InitStores ==
    /\ index = {}
    /\ bucket = FALSE
    /\ objects = {}

\* the builder when no run has started
InitRun ==
    /\ fs = {}
    /\ temp_m4a = NoName
    /\ temp_wav = NoName
    /\ pc = "idle"
    /\ runs = 0
    /\ skip_existing = TRUE
    /\ track_list = <<>>
    /\ i = 0
    /\ processed = 0 /\ skipped = 0 /\ failed = 0
    /\ pl_result = NoPlaylistResult
    /\ setup_failure = "none"
    /\ track_id = None
    /\ song_result = NoSongResult
    /\ attributes = EmptyDict
    /\ ffmpeg_result = NoFfmpegResult
    /\ convert_result = NoConvert
    /\ embedding = None
    /\ result = NoResult
    /\ steps = <<>>
    /\ visited = <<>>
    /\ index0 = {}
    /\ config = Configured
    /\ caller = None
    /\ args = NoArgs
    /\ exit_code = None

\* the handler calls that can be in flight together
Handlers == {"first", "second"}
\* a handler call before its request arrived
IdleHandler ==
    [request |-> NoRequest, qpc |-> "idle", query_embedding |-> None,
     response |-> NoResponse]

\* no request is being served
InitQueryIdle ==
    /\ request = NoRequest
    /\ qpc = "idle"
    /\ lookup_result = NoLookup
    /\ query_embedding = None
    /\ raw_results = NoResults
    /\ response = NoResponse
    /\ handlers = [h \in Handlers |-> IdleHandler]

InitBuilder ==
    /\ InitStores
    /\ InitRun

Init ==
    /\ InitBuilder
    /\ call = NoCall
    /\ ret = NoRet
    /\ InitQueryIdle

\* --------------------------------------------------------- process_playlist
PlaylistFailure(msg) == [success |-> FALSE, message |-> msg]

\* the except clause of process_playlist
process_playlist_except(e) == PlaylistFailure(<<"Error", "processing", "playlist:">> \o e)

\* configuration checks that look at the credentials only
validate_configuration_credentials_only(key_id, team_id, key_file) ==
    IF ~key_id \/ ~team_id THEN "credentials" ELSE "none"

\* the configuration checks at the head of process_playlist
validate_configuration(key_id, team_id, key_file) ==
    IF ~key_id \/ ~team_id THEN "credentials"
    ELSE IF ~key_file THEN "key_file"
    ELSE "none"

ConfigMessage(cause) ==
    IF cause = "credentials"
    THEN <<"Apple", "Music", "credentials", "not", "configured.">>
    ELSE <<"Apple", "Music", "key", "file", "not", "found">>

ReturnPlaylistFailure(cause, res) ==
    /\ pl_result' = res
    /\ setup_failure' = cause
    /\ pc' = "returned"

\* the head of process_playlist: the configuration checks, then the try block
StartPlaylist(cfg, skip) ==
    LET cause == validate_configuration(cfg.key_id, cfg.team_id, cfg.key_file) IN
    /\ config' = cfg
    /\ caller' = "process_playlist"
    /\ skip_existing' = skip
    /\ IF cause # "none"
       THEN ReturnPlaylistFailure(cause, PlaylistFailure(ConfigMessage(cause)))
       ELSE /\ pc' = "token"
            /\ pl_result' = NoPlaylistResult
            /\ setup_failure' = "none"
    /\ runs' = runs + 1
    /\ track_list' = <<>>
    /\ i' = 0
    /\ visited' = <<>>
    /\ processed' = 0 /\ skipped' = 0 /\ failed' = 0
    /\ result' = NoResult
    /\ steps' = <<>>
    /\ UNCHANGED <<persistent, song_locals>>

\* process_playlist is called: a new run of the builder
ProcessPlaylist ==
    /\ pc \in {"idle", "returned"}
    /\ runs < MaxRuns
    /\ \E cfg \in Configs, skip \in BOOLEAN : StartPlaylist(cfg, skip)
    /\ UNCHANGED outside_builder

\* generate_apple_developer_token: reads the key file and signs
GenerateToken ==
    /\ pc = "token"
    /\ \/ /\ pc' = "connect"
          /\ UNCHANGED <<pl_result, setup_failure>>
       \/ \E e \in ErrTexts :
            ReturnPlaylistFailure("token", process_playlist_except(e))
    /\ UNCHANGED <<persistent, run_locals, counters, song_locals, result, steps>>
    /\ UNCHANGED <<config, caller, outside_builder>>

\* get_chromadb_client / get_or_create_collection / count
ConnectIndex ==
    /\ pc = "connect"
    /\ \/ /\ pc' = "fetch_playlist"
          /\ UNCHANGED <<pl_result, setup_failure>>
       \/ \E e \in ErrTexts :
            ReturnPlaylistFailure("index_connect", process_playlist_except(e))
    /\ UNCHANGED <<persistent, run_locals, counters, song_locals, result, steps>>
    /\ UNCHANGED <<config, caller, outside_builder>>

\* what process_playlist makes of the playlist fetch: a failure, or the track list
playlist_tracks(r) ==
    IF r.raised
    THEN [ok |-> FALSE, cause |-> "playlist_fetch", res |-> process_playlist_except(r.err)]
    ELSE IF ~r.success
    THEN [ok |-> FALSE, cause |-> "playlist_fetch",
          res |-> PlaylistFailure(<<"Failed", "to", "fetch", "playlist:">>
                                   \o Get(r.data, "error", <<"Unknown", "error">>))]
    ELSE IF "data" \notin DOMAIN r.data \/ Len(r.data.data) = 0
    THEN [ok |-> FALSE, cause |-> "playlist_data",
          res |-> PlaylistFailure(<<"No", "playlist", "data", "available">>)]
    ELSE IF \/ "relationships" \notin DOMAIN r.data.data[1]
            \/ "tracks" \notin DOMAIN r.data.data[1].relationships
    THEN [ok |-> FALSE, cause |-> "playlist_tracks",
          res |-> PlaylistFailure(<<"No", "tracks", "found", "in", "playlist">>)]
    ELSE [ok |-> TRUE,
          track_list |-> Get(r.data.data[1].relationships.tracks, "data", <<>>)]

FetchPlaylist ==
    /\ pc = "fetch_playlist"
    /\ \E x \in CatalogExchanges(PlaylistPayloads) :
         LET t == playlist_tracks(get_catalog_playlist(x)) IN
         IF t.ok
         THEN /\ track_list' = t.track_list
              /\ pc' = "loop"
              /\ UNCHANGED <<pl_result, setup_failure>>
         ELSE /\ ReturnPlaylistFailure(t.cause, t.res)
              /\ UNCHANGED track_list
    /\ UNCHANGED <<persistent, runs, skip_existing, i, visited, counters,
                   song_locals, result, steps>>
    /\ UNCHANGED <<config, caller, outside_builder>>

\* ------------------------------------------------------------ process_song
Failed(msg) == [status |-> "failed", message |-> msg]

\* no except clause: the exception leaves process_song
process_song_propagates(e) == [status |-> "raised", message |-> e]

\* the except clause that closes process_song
process_song_except(e) == Failed(<<"Error:">> \o e)

StepAppend(s, name, outcome) == Append(s, [step |-> name, outcome |-> outcome])
StepFinish(s, outcome) == [s EXCEPT ![Len(s)].outcome = outcome]
Outcome(ok) == IF ok THEN "ok" ELSE "failed"

\* collection.get(ids=[song_id])['ids']
collection_get(coll, song_id) == { r \in coll : r.id = song_id }

song_exists_in_chromadb(lookup, song_id, coll) ==
    IF lookup = "raises" THEN FALSE
    ELSE Cardinality(collection_get(coll, song_id)) > 0

\* the guard of the early return: skip_existing and song_exists_in_chromadb(...)
skip_song(skip, lookup, song_id, coll) ==
    skip /\ song_exists_in_chromadb(lookup, song_id, coll)

\* the loop of process_playlist reaches the next track and calls process_song,
\* which starts with the skip check
ProcessSong ==
    /\ pc = "loop"
    /\ i < Len(track_list)
    /\ LET tid == Get(track_list[i + 1], "id", None) IN
       /\ track_id' = tid
       /\ visited' = Append(visited, tid)
       /\ index0' = index
       /\ \E lookup \in {"ok", "raises"} :
            LET log == IF skip_existing
                       THEN StepAppend(<<>>, "EXISTS_CHECK", "done")
                       ELSE <<>> IN
            /\ steps' = log
            /\ IF skip_song(skip_existing, lookup, tid, index)
               THEN /\ result' = [status |-> "skipped",
                                  message |-> <<"Already", "in", "database">>]
                    /\ pc' = "ps_return"
               ELSE /\ result' = NoResult
                    /\ pc' = "ps_fetch"
    /\ UNCHANGED <<persistent, runs, skip_existing, track_list, i, counters,
                   pl_result, setup_failure, song_result, attributes,
                   ffmpeg_result, convert_result, embedding>>
    /\ UNCHANGED <<config, caller, outside_builder>>

Truthy(x) == x # None /\ x # ""

\* attributes.get('previews', [{}])[0].get('url') if attributes.get('previews') else None
preview_url(attrs) ==
    IF "previews" \in DOMAIN attrs /\ Len(attrs.previews) > 0
    THEN Get(attrs.previews[1], "url", None)
    ELSE None

\* the preview check is missing
fetch_metadata_no_preview_check(r) ==
    IF r.raised
    THEN [ok |-> FALSE, res |-> process_song_except(r.err)]
    ELSE IF ~r.success
    THEN [ok |-> FALSE, res |-> Failed(<<"Failed", "to", "fetch", "song", "details">>)]
    ELSE IF "data" \notin DOMAIN r.data \/ Len(r.data.data) = 0
    THEN [ok |-> FALSE, res |-> Failed(<<"No", "song", "data", "available">>)]
    ELSE [ok |-> TRUE, attributes |-> Get(r.data.data[1], "attributes", EmptyDict)]

\* process_song from the catalog call to the preview check
fetch_metadata(r) ==
    IF r.raised
    THEN [ok |-> FALSE, res |-> process_song_except(r.err)]
    ELSE IF ~r.success
    THEN [ok |-> FALSE, res |-> Failed(<<"Failed", "to", "fetch", "song", "details">>)]
    ELSE IF "data" \notin DOMAIN r.data \/ Len(r.data.data) = 0
    THEN [ok |-> FALSE, res |-> Failed(<<"No", "song", "data", "available">>)]
    ELSE LET attrs == Get(r.data.data[1], "attributes", EmptyDict) IN
         IF ~Truthy(preview_url(attrs))
         THEN [ok |-> FALSE, res |-> Failed(<<"No", "preview", "URL", "available">>)]
         ELSE [ok |-> TRUE, attributes |-> attrs]

FetchMetadata ==
    /\ pc = "ps_fetch"
    /\ \E x \in CatalogExchanges(SongPayloads(track_id)) :
         LET f == fetch_metadata(get_catalog_song(x)) IN
         /\ song_result' = get_catalog_song(x)
         /\ steps' = StepAppend(steps, "FETCH_METADATA", Outcome(f.ok))
         /\ IF f.ok
            THEN /\ attributes' = f.attributes
                 /\ pc' = "ps_download"
                 /\ UNCHANGED result
            ELSE /\ result' = f.res
                 /\ pc' = "ps_return"
                 /\ UNCHANGED attributes
    /\ UNCHANGED <<persistent, run_locals, counters, pl_result, setup_failure,
                   track_id, ffmpeg_result, convert_result, embedding, index0>>
    /\ UNCHANGED <<config, caller, outside_builder>>

\* ------------------------------------------- download_and_convert_preview
\* tempfile.NamedTemporaryFile(suffix=..., delete=False) creates a file under a
\* name no existing file has: here the least unused serial for the suffix
Serials(files, suffix) == { f[2] : f \in { g \in files : g[1] = suffix } }
fresh_name(files, suffix) ==
    <<suffix, CHOOSE n \in 0..Cardinality(files) :
                  /\ n \notin Serials(files, suffix)
                  /\ \A m \in 0..(n - 1) : m \in Serials(files, suffix)>>

\* the outer except clause of download_and_convert_preview
download_except(e) ==
    [success |-> FALSE, wav_path |-> None, message |-> <<"Error:">> \o e]

\* an except clause that removes the output file only
cleanup_on_error_wav_only(files, m4a, wav) == files \ {wav}

\* the inner except clause: both unlinks, each with its error swallowed
cleanup_on_error(files, m4a, wav) == (files \ {m4a}) \ {wav}

ConvertReturns(res) ==
    /\ convert_result' = res
    /\ pc' = "ps_converted"

\* the two NamedTemporaryFile(delete=False) calls
CreateTempFiles ==
    /\ pc = "ps_download"
    /\ steps' = StepAppend(steps, "DOWNLOAD_TRANSCODE", "pending")
    /\ LET m4a == fresh_name(fs, "m4a")
           wav == fresh_name(fs, "wav") IN
       \/ /\ fs' = fs \cup {m4a, wav}
          /\ temp_m4a' = m4a
          /\ temp_wav' = wav
          /\ pc' = "dl_get"
          /\ UNCHANGED convert_result
       \/ \E e \in ErrTexts :
            /\ fs' = fs
            /\ UNCHANGED temp_names
            /\ ConvertReturns(download_except(e))
       \/ \E e \in ErrTexts :
            /\ Cardinality(fs) < MaxLeaked
            /\ fs' = fs \cup {m4a}
            /\ temp_m4a' = m4a
            /\ UNCHANGED temp_wav
            /\ ConvertReturns(download_except(e))
    /\ UNCHANGED <<index, bucket, objects, run_locals, counters, pl_result,
                   setup_failure, track_id, song_result, attributes, ffmpeg_result,
                   embedding, result, index0>>
    /\ UNCHANGED <<config, caller, outside_builder>>

\* requests.get, raise_for_status and the write of the chunks
DownloadPreview ==
    /\ pc = "dl_get"
    /\ \/ /\ pc' = "dl_ffmpeg"
          /\ UNCHANGED <<fs, convert_result>>
       \/ \E e \in ErrTexts :
            /\ fs' = cleanup_on_error(fs, temp_m4a, temp_wav)
            /\ ConvertReturns(download_except(e))
    /\ UNCHANGED <<index, bucket, objects, temp_names, run_locals, counters,
                   pl_result, setup_failure, track_id, song_result, attributes,
                   ffmpeg_result, embedding, result, steps, index0>>
    /\ UNCHANGED <<config, caller, outside_builder>>

\* the nonzero exit returns without removing the output file
transcode_done_keeps_wav(files, m4a, wav, returncode, stderr) ==
    IF returncode # "0"
    THEN [fs |-> files \ {m4a},
          res |-> [success |-> FALSE, wav_path |-> None,
                   message |-> <<"ffmpeg", "error:">> \o stderr]]
    ELSE [fs |-> files \ {m4a},
          res |-> [success |-> TRUE, wav_path |-> wav,
                   message |-> <<"Successfully", "converted", "to", "WAV">>]]

\* download_and_convert_preview once subprocess.run has returned
transcode_done(files, m4a, wav, returncode, stderr) ==
    IF m4a \notin files
    THEN [fs |-> cleanup_on_error(files, m4a, wav),
          res |-> download_except(<<"No", "such", "file">>)]
    ELSE IF returncode # "0"
    THEN IF wav \notin files
         THEN [fs |-> cleanup_on_error(files \ {m4a}, m4a, wav),
               res |-> download_except(<<"No", "such", "file">>)]
         ELSE [fs |-> (files \ {m4a}) \ {wav},
               res |-> [success |-> FALSE, wav_path |-> None,
                        message |-> <<"ffmpeg", "error:">> \o stderr]]
    ELSE [fs |-> files \ {m4a},
          res |-> [success |-> TRUE, wav_path |-> wav,
                   message |-> <<"Successfully", "converted", "to", "WAV">>]]

RunFfmpeg ==
    /\ pc = "dl_ffmpeg"
    /\ \/ \E e \in ErrTexts :
            /\ fs' = cleanup_on_error(fs, temp_m4a, temp_wav)
            /\ ConvertReturns(download_except(e))
            /\ UNCHANGED ffmpeg_result
       \/ \E returncode \in {"0", "1"}, stderr \in StderrTexts :
            LET d == transcode_done(fs, temp_m4a, temp_wav, returncode, stderr) IN
            /\ ffmpeg_result' = [returncode |-> returncode, stderr |-> stderr]
            /\ fs' = d.fs
            /\ ConvertReturns(d.res)
    /\ UNCHANGED <<index, bucket, objects, temp_names, run_locals, counters,
                   pl_result, setup_failure, track_id, song_result, attributes,
                   embedding, result, steps, index0>>
    /\ UNCHANGED <<config, caller, outside_builder>>

\* process_song looks at convert_result
after_convert(res) ==
    IF ~res.success
    THEN [ok |-> FALSE, res |-> Failed(<<"Conversion", "failed:">> \o res.message)]
    ELSE [ok |-> TRUE, wav_path |-> res.wav_path]

AfterConvert ==
    /\ pc = "ps_converted"
    /\ LET a == after_convert(convert_result) IN
       /\ steps' = StepFinish(steps, Outcome(a.ok))
       /\ IF a.ok
          THEN /\ pc' = "ps_upload"
               /\ UNCHANGED result
          ELSE /\ result' = a.res
               /\ pc' = "ps_return"
    /\ ffmpeg_result' = NoFfmpegResult
    /\ UNCHANGED <<persistent, run_locals, counters, pl_result, setup_failure,
                   track_id, song_result, attributes, convert_result, embedding,
                   index0>>
    /\ UNCHANGED <<config, caller, outside_builder>>

\* no finally clause: the WAV file is left behind
finally_unlink_missing(files, wav_path) == files

\* the finally clause of process_song: os.unlink(wav_path), errors swallowed
finally_unlink(files, wav_path) == files \ {wav_path}

SongReturns(res, files) ==
    /\ result' = res
    /\ fs' = finally_unlink(files, convert_result.wav_path)
    /\ pc' = "ps_return"

\* ----------------------------------------------------------- upload_to_minio
UploadOutcomes ==
    { [at |-> "none"] }
      \cup { [at |-> a, type |-> t, err |-> e] :
                a \in {"before_put", "fput_object"},
                t \in {"S3Error", "Exception"}, e \in ErrTexts }

upload_error(o) ==
    [success |-> FALSE, object_name |-> None,
     message |-> IF o.type = "S3Error" THEN <<"MinIO", "error:">> \o o.err
                 ELSE <<"Error:">> \o o.err]

\* the result of upload_to_minio and what it leaves in the object store
upload_to_minio(o, bkt, objs, file_path, files, song_id) ==
    LET object_name == <<song_id, ".wav">> IN
    IF o.at = "before_put"
    THEN [res |-> upload_error(o), bucket |-> bkt, objects |-> objs]
    ELSE IF o.at = "fput_object"
    THEN [res |-> upload_error(o), bucket |-> TRUE, objects |-> objs]
    ELSE IF file_path \notin files
    THEN [res |-> [success |-> FALSE, object_name |-> None,
                   message |-> <<"Error:", "No", "such", "file">>],
          bucket |-> TRUE, objects |-> objs]
    ELSE [res |-> [success |-> TRUE, object_name |-> object_name,
                   message |-> <<"Uploaded", "to", "MinIO:">> \o object_name],
          bucket |-> TRUE, objects |-> objs \cup {object_name}]

\* the upload result is not looked at
after_upload_ignored(res) == [ok |-> TRUE]

\* process_song looks at upload_result
after_upload(res) ==
    IF ~res.success
    THEN [ok |-> FALSE, res |-> Failed(<<"Upload", "failed:">> \o res.message)]
    ELSE [ok |-> TRUE]

Upload ==
    /\ pc = "ps_upload"
    /\ \E o \in UploadOutcomes :
         LET u == upload_to_minio(o, bucket, objects, convert_result.wav_path, fs, track_id)
             a == after_upload(u.res) IN
         /\ bucket' = u.bucket
         /\ objects' = u.objects
         /\ steps' = StepAppend(steps, "UPLOAD", Outcome(u.res.success))
         /\ IF a.ok
            THEN /\ pc' = "ps_embed"
                 /\ UNCHANGED <<result, fs>>
            ELSE SongReturns(a.res, fs)
    /\ UNCHANGED <<index, temp_names, run_locals, counters, pl_result, setup_failure,
                   song_locals>>
    /\ UNCHANGED <<config, caller, outside_builder>>

\* ------------------------------------------------------- get_audio_embedding
EmbedOutcomes ==
    { [kind |-> "ok", embedding |-> v] : v \in Vectors }
      \cup { [kind |-> "raises", err |-> e] : e \in ErrTexts }

get_audio_embedding(o, wav_path, files) ==
    IF wav_path \notin files
    THEN [success |-> FALSE, embedding |-> None,
          message |-> <<"Failed", "to", "get", "embedding:", "No", "such", "file">>]
    ELSE IF o.kind = "ok"
    THEN [success |-> TRUE, embedding |-> o.embedding]
    ELSE [success |-> FALSE, embedding |-> None,
          message |-> <<"Failed", "to", "get", "embedding:">> \o o.err]

\* process_song looks at embed_result
after_embed(res) ==
    IF ~res.success
    THEN [ok |-> FALSE, res |-> Failed(Get(res, "message", <<"Embedding", "failed">>))]
    ELSE [ok |-> TRUE, embedding |-> res.embedding]

Embed ==
    /\ pc = "ps_embed"
    /\ \E o \in EmbedOutcomes :
         LET embed_result == get_audio_embedding(o, convert_result.wav_path, fs)
             a == after_embed(embed_result) IN
         /\ steps' = StepAppend(steps, "EMBED", Outcome(embed_result.success))
         /\ IF a.ok
            THEN /\ embedding' = a.embedding
                 /\ pc' = "ps_index"
                 /\ UNCHANGED <<result, fs>>
            ELSE /\ SongReturns(a.res, fs)
                 /\ UNCHANGED embedding
    /\ UNCHANGED <<index, bucket, objects, temp_names, run_locals, counters, pl_result,
                   setup_failure, track_id, song_result, attributes, ffmpeg_result,
                   convert_result, index0>>
    /\ UNCHANGED <<config, caller, outside_builder>>

\* ------------------------------------------------------ add_song_to_chromadb
RECURSIVE JoinGenres(_)
\* ", ".join(genres)
JoinGenres(genres) ==
    IF Len(genres) = 0 THEN <<>>
    ELSE IF Len(genres) = 1 THEN <<genres[1]>>
    ELSE <<genres[1], ", ">> \o JoinGenres(Tail(genres))

song_metadata(song_id, song_name, album_name, artist_name, release_date, genres) ==
    [song_id |-> song_id, song_name |-> song_name, album_name |-> album_name,
     artist_name |-> artist_name, release_date |-> release_date,
     genres |-> IF Len(genres) > 0 THEN JoinGenres(genres) ELSE <<>>]

\* the record process_song asks add_song_to_chromadb to store
index_record(song_id, attrs, vec) ==
    [id |-> song_id,
     embedding |-> vec,
     metadata |-> song_metadata(song_id,
                                Get(attrs, "name", "Unknown"),
                                Get(attrs, "albumName", "Unknown"),
                                Get(attrs, "artistName", "Unknown"),
                                Get(attrs, "releaseDate", "Unknown"),
                                Get(attrs, "genreNames", <<>>))]

\* whether add_song_to_chromadb goes on to collection.delete: the lookup
\* answered and found the id (an error of the lookup is swallowed)
delete_existing(lookup, coll, song_id) ==
    lookup = "ok" /\ collection_get(coll, song_id) # {}

\* collection.delete(ids=[song_id])
collection_delete(coll, song_id) == { r \in coll : r.id # song_id }

\* collection.add: ids are the collection's primary key, and an add of an id
\* the collection already holds is ignored by the index
collection_add(coll, rec) ==
    IF \E r \in coll : r.id = rec.id THEN coll ELSE coll \cup {rec}

\* the collections the index can hold: at most one record per id
Collections ==
    { c \in SUBSET { index_record(id, a, v) :
                        id \in TrackIds, a \in AttrsWithPreview, v \in Vectors } :
        \A r1 \in c, r2 \in c : r1.id = r2.id => r1 = r2 }

IndexLookup ==
    /\ pc = "ps_index"
    /\ steps' = StepAppend(steps, "INDEX", "pending")
    /\ \E lookup \in {"ok", "raises"} :
         pc' = IF delete_existing(lookup, index, track_id)
               THEN "ps_index_delete" ELSE "ps_index_add"
    /\ UNCHANGED <<persistent, run_locals, counters, pl_result, setup_failure,
                   song_locals, result>>
    /\ UNCHANGED <<config, caller, outside_builder>>

IndexDelete ==
    /\ pc = "ps_index_delete"
    /\ \E o \in {"ok", "raises"} :
         index' = IF o = "ok" THEN collection_delete(index, track_id) ELSE index
    /\ pc' = "ps_index_add"
    /\ UNCHANGED <<bucket, objects, fs, temp_names, run_locals, counters, pl_result,
                   setup_failure, song_locals, result, steps>>
    /\ UNCHANGED <<config, caller, outside_builder>>

\* process_song looks at chromadb_result
after_index(res) ==
    IF res.success
    THEN [status |-> "success", message |-> <<"Successfully", "indexed">>]
    ELSE Failed(res.message)

IndexAdd ==
    /\ pc = "ps_index_add"
    /\ \/ /\ index' = collection_add(index, index_record(track_id, attributes, embedding))
          /\ steps' = StepFinish(steps, "ok")
          /\ SongReturns(after_index(
                 [success |-> TRUE,
                  message |-> <<"Added", "to", "ChromaDB:",
                                Get(attributes, "name", "Unknown")>>]), fs)
       \/ \E e \in ErrTexts :
            /\ index' = index
            /\ steps' = StepFinish(steps, "failed")
            /\ SongReturns(after_index(
                   [success |-> FALSE,
                    message |-> <<"Error", "adding", "to", "ChromaDB:">> \o e]), fs)
    /\ UNCHANGED <<bucket, objects, temp_names, run_locals, counters, pl_result,
                   setup_failure, song_locals>>
    /\ UNCHANGED <<config, caller, outside_builder>>

\* ------------------------------------------------- back in process_playlist
\* a tally that leaves skipped tracks out
count_result_skipped_uncounted(status, p, s, f) ==
    IF status = "success" THEN <<p + 1, s, f>>
    ELSE IF status = "skipped" THEN <<p, s, f>>
    ELSE <<p, s, f + 1>>

\* if / elif / else on result["status"]: one of the three counters goes up
count_result(status, p, s, f) ==
    IF status = "success" THEN <<p + 1, s, f>>
    ELSE IF status = "skipped" THEN <<p, s + 1, f>>
    ELSE <<p, s, f + 1>>

\* a loop that gives up at the first failed track
next_track_abort(n, status) == IF status = "failed" THEN Len(track_list) ELSE n + 1

\* for i, track in enumerate(track_list, 1): the loop has no break
next_track(n, status) == n + 1

ReturnFromSong ==
    /\ pc = "ps_return"
    /\ caller = "process_playlist"
    /\ IF result.status = "raised"
       THEN /\ ReturnPlaylistFailure("track", process_playlist_except(result.message))
            /\ UNCHANGED <<i, counters>>
       ELSE LET c == count_result(result.status, processed, skipped, failed) IN
            /\ processed' = c[1] /\ skipped' = c[2] /\ failed' = c[3]
            /\ i' = next_track(i, result.status)
            /\ pc' = "loop"
            /\ UNCHANGED <<pl_result, setup_failure>>
    /\ track_id' = None
    /\ song_result' = NoSongResult
    /\ attributes' = EmptyDict
    /\ temp_m4a' = NoName
    /\ temp_wav' = NoName
    /\ convert_result' = NoConvert
    /\ embedding' = None
    /\ result' = NoResult
    /\ steps' = <<>>
    /\ index0' = {}
    /\ UNCHANGED <<index, bucket, objects, fs, ffmpeg_result, runs, skip_existing,
                   track_list, visited>>
    /\ UNCHANGED <<config, caller, outside_builder>>

\* a summary that reports the run failed when a track failed
playlist_summary_escalates(total, p, s, f) ==
    IF f > 0 THEN PlaylistFailure(<<"Some", "tracks", "failed">>)
    ELSE [success |-> TRUE, total |-> total,
          processed |-> p, skipped |-> s, failed |-> f]

\* the summary process_playlist returns after the loop
playlist_summary(total, p, s, f) ==
    [success |-> TRUE, total |-> total, processed |-> p, skipped |-> s, failed |-> f]

ReturnSummary ==
    /\ pc = "loop"
    /\ i >= Len(track_list)
    /\ pl_result' = playlist_summary(Len(track_list), processed, skipped, failed)
    /\ pc' = "returned"
    /\ UNCHANGED <<persistent, run_locals, counters, setup_failure, song_locals,
                   result, steps>>
    /\ UNCHANGED <<config, caller, outside_builder>>

Next ==
    \/ ProcessPlaylist
    \/ GenerateToken
    \/ ConnectIndex
    \/ FetchPlaylist
    \/ ProcessSong
    \/ FetchMetadata
    \/ CreateTempFiles
    \/ DownloadPreview
    \/ RunFfmpeg
    \/ AfterConvert
    \/ Upload
    \/ Embed
    \/ IndexLookup
    \/ IndexDelete
    \/ IndexAdd
    \/ ReturnFromSong
    \/ ReturnSummary

Spec == Init /\ [][Next]_vars

\* ------------------------------------------------------ process_single_song
\* the except clause of process_single_song
process_single_song_except(e) == PlaylistFailure(<<"Error", "processing", "song:">> \o e)

\* a setup stage of process_single_song returns failure
ReturnSingleSongFailure(cause, res) ==
    /\ ReturnPlaylistFailure(cause, res)
    /\ track_id' = None

\* the head of process_single_song: the configuration checks, then the try block
StartSingleSong(cfg, song_id, skip) ==
    LET cause == validate_configuration(cfg.key_id, cfg.team_id, cfg.key_file) IN
    /\ config' = cfg
    /\ caller' = "process_single_song"
    /\ skip_existing' = skip
    /\ IF cause # "none"
       THEN ReturnSingleSongFailure(cause, PlaylistFailure(ConfigMessage(cause)))
       ELSE /\ pc' = "ss_token"
            /\ pl_result' = NoPlaylistResult
            /\ setup_failure' = "none"
            /\ track_id' = song_id
    /\ runs' = runs + 1
    /\ track_list' = <<>>
    /\ i' = 0
    /\ visited' = <<>>
    /\ processed' = 0 /\ skipped' = 0 /\ failed' = 0
    /\ result' = NoResult
    /\ steps' = <<>>
    /\ UNCHANGED <<persistent, song_result, attributes, ffmpeg_result, convert_result,
                   embedding, index0>>

\* generate_apple_developer_token
SingleGenerateToken ==
    /\ pc = "ss_token"
    /\ \/ /\ pc' = "ss_connect"
          /\ UNCHANGED <<pl_result, setup_failure, track_id>>
       \/ \E e \in ErrTexts :
            ReturnSingleSongFailure("token", process_single_song_except(e))
    /\ UNCHANGED <<persistent, run_locals, counters, song_result, attributes,
                   ffmpeg_result, convert_result, embedding, index0, result, steps>>
    /\ UNCHANGED <<config, caller, outside_builder>>

\* get_chromadb_client / get_or_create_collection / count
SingleConnectIndex ==
    /\ pc = "ss_connect"
    /\ \/ /\ pc' = "ss_fetch"
          /\ UNCHANGED <<pl_result, setup_failure, track_id>>
       \/ \E e \in ErrTexts :
            ReturnSingleSongFailure("index_connect", process_single_song_except(e))
    /\ UNCHANGED <<persistent, run_locals, counters, song_result, attributes,
                   ffmpeg_result, convert_result, embedding, index0, result, steps>>
    /\ UNCHANGED <<config, caller, outside_builder>>

\* what process_single_song makes of its own fetch of the song
single_song_fetch(r) ==
    IF r.raised
    THEN [ok |-> FALSE, cause |-> "song_fetch", res |-> process_single_song_except(r.err)]
    ELSE IF ~r.success
    THEN [ok |-> FALSE, cause |-> "song_fetch",
          res |-> PlaylistFailure(<<"Failed", "to", "fetch", "song:">>
                                   \o Get(r.data, "error", <<"Unknown", "error">>))]
    ELSE IF "data" \notin DOMAIN r.data \/ Len(r.data.data) = 0
    THEN [ok |-> FALSE, cause |-> "song_data",
          res |-> PlaylistFailure(<<"No", "song", "data", "available">>)]
    ELSE [ok |-> TRUE]

SingleFetchSong ==
    /\ pc = "ss_fetch"
    /\ \E x \in CatalogExchanges(SongPayloads(track_id)) :
         LET t == single_song_fetch(get_catalog_song(x)) IN
         IF t.ok
         THEN /\ pc' = "ss_call"
              /\ steps' = StepAppend(steps, "SONG_FETCH", "ok")
              /\ UNCHANGED <<pl_result, setup_failure, track_id>>
         ELSE /\ ReturnSingleSongFailure(t.cause, t.res)
              /\ steps' = steps
    /\ UNCHANGED <<persistent, run_locals, counters, song_result, attributes,
                   ffmpeg_result, convert_result, embedding, index0, result>>
    /\ UNCHANGED <<config, caller, outside_builder>>

\* process_single_song calls process_song, which starts with the skip check
SingleProcessSong ==
    /\ pc = "ss_call"
    /\ visited' = Append(visited, track_id)
    /\ index0' = index
    /\ \E lookup \in {"ok", "raises"} :
         LET log == IF skip_existing
                    THEN StepAppend(<<>>, "EXISTS_CHECK", "done")
                    ELSE <<>> IN
         /\ steps' = steps \o log
         /\ IF skip_song(skip_existing, lookup, track_id, index)
            THEN /\ result' = [status |-> "skipped",
                               message |-> <<"Already", "in", "database">>]
                 /\ pc' = "ps_return"
            ELSE /\ result' = NoResult
                 /\ pc' = "ps_fetch"
    /\ UNCHANGED <<persistent, runs, skip_existing, track_list, i, counters,
                   pl_result, setup_failure, track_id, song_result, attributes,
                   ffmpeg_result, convert_result, embedding>>
    /\ UNCHANGED <<config, caller, outside_builder>>

\* what process_single_song returns for the result of process_song
single_song_result(res) ==
    IF res.status = "success"
    THEN [success |-> TRUE, message |-> <<"Song", "indexed", "successfully">>]
    ELSE IF res.status = "skipped"
    THEN [success |-> TRUE, message |-> <<"Song", "already", "in", "database">>]
    ELSE [success |-> FALSE, message |-> res.message]

ReturnFromSingleSong ==
    /\ pc = "ps_return"
    /\ caller = "process_single_song"
    /\ IF result.status = "raised"
       THEN /\ pl_result' = process_single_song_except(result.message)
            /\ setup_failure' = "track"
       ELSE /\ pl_result' = single_song_result(result)
            /\ setup_failure' = IF result.status = "failed" THEN "track" ELSE "none"
    /\ pc' = "returned"
    /\ track_id' = None
    /\ song_result' = NoSongResult
    /\ attributes' = EmptyDict
    /\ temp_m4a' = NoName
    /\ temp_wav' = NoName
    /\ convert_result' = NoConvert
    /\ embedding' = None
    /\ result' = NoResult
    /\ steps' = <<>>
    /\ index0' = {}
    /\ UNCHANGED <<index, bucket, objects, fs, ffmpeg_result, run_locals, counters>>
    /\ UNCHANGED <<config, caller, outside_builder>>

\* ---------------------------------------------------------------------- main
\* command lines main starts a run for
MaxInvocations == 1

\* args.playlist_id is modelled by whether it is given; --interactive is absent;
\* one command line gives both --playlist-id and --song-id
Args ==
    { a \in [playlist_id : BOOLEAN, song_id : TrackIds \cup {None},
             no_skip_existing : BOOLEAN] :
        (a.playlist_id /\ a.song_id # None) => (a.song_id = "A" /\ ~a.no_skip_existing) }

\* the stores a new process can find: records of earlier runs and their objects
StoredCollections == { c \in Collections : \A r \in c : r.embedding = "v1" }

InitCli ==
    /\ index \in StoredCollections
    /\ bucket = (index # {})
    /\ objects = { <<r.id, ".wav">> : r \in index }
    /\ InitRun
    /\ call = NoCall
    /\ ret = NoRet
    /\ InitQueryIdle

\* elif args.playlist_id: process_playlist(...)
MainPlaylist ==
    /\ pc \in {"idle", "exited"}
    /\ runs < MaxInvocations
    /\ \E a \in Args, cfg \in Configs :
         /\ a.playlist_id
         /\ args' = a
         /\ StartPlaylist(cfg, ~a.no_skip_existing)
    /\ exit_code' = None
    /\ UNCHANGED <<call_vars, query_vars>>

\* elif args.song_id: process_single_song(...)
MainSong ==
    /\ pc \in {"idle", "exited"}
    /\ runs < MaxInvocations
    /\ \E a \in Args, cfg \in Configs :
         /\ ~a.playlist_id
         /\ a.song_id # None
         /\ args' = a
         /\ StartSingleSong(cfg, a.song_id, ~a.no_skip_existing)
    /\ exit_code' = None
    /\ UNCHANGED <<call_vars, query_vars>>

\* else: parser.print_help()
MainHelp ==
    /\ pc \in {"idle", "exited"}
    /\ \E a \in Args :
         /\ ~a.playlist_id
         /\ a.song_id = None
         /\ args' = a
    /\ pc' = "exited"
    /\ exit_code' = "0"
    /\ caller' = None
    /\ pl_result' = NoPlaylistResult
    /\ setup_failure' = "none"
    /\ UNCHANGED <<persistent, run_locals, counters, song_locals, result, steps, config,
                   call_vars, query_vars>>

\* an exit status that does not look at the result
exit_status_always_zero(res) == "0"

\* if not result["success"]: sys.exit(1); otherwise main returns
exit_status(res) == IF ~res.success THEN "1" ELSE "0"

MainExit ==
    /\ pc = "returned"
    /\ exit_code' = exit_status(pl_result)
    /\ pc' = "exited"
    /\ UNCHANGED <<persistent, run_locals, counters, song_locals, result, steps,
                   pl_result, setup_failure, config, caller, args, call_vars, query_vars>>

NextCli ==
    \/ MainPlaylist
    \/ MainSong
    \/ MainHelp
    \/ MainExit
    \/ GenerateToken
    \/ ConnectIndex
    \/ FetchPlaylist
    \/ ProcessSong
    \/ SingleGenerateToken
    \/ SingleConnectIndex
    \/ SingleFetchSong
    \/ SingleProcessSong
    \/ FetchMetadata
    \/ CreateTempFiles
    \/ DownloadPreview
    \/ RunFfmpeg
    \/ AfterConvert
    \/ Upload
    \/ Embed
    \/ IndexLookup
    \/ IndexDelete
    \/ IndexAdd
    \/ ReturnFromSong
    \/ ReturnFromSingleSong
    \/ ReturnSummary

SpecCli == InitCli /\ [][NextCli]_vars

\* ------------------------------------------- functions called on their own
\* timedelta(days=min(expiration_days, 180))
MAX_EXPIRATION_DAYS == 180
\* expiration_days asked of generate_apple_developer_token
RequestedDays == {1, 90, 180, 181, 365}
\* local time minus UTC on the host, in seconds
UtcOffsets == {-28800, 0, 19800}
\* the clock when the token is issued, in seconds since the epoch
Instants == {0, 1000000}

\* min(a, b)
Min(a, b) == IF a < b THEN a ELSE b

\* datetime.timestamp() of a naive datetime: its fields are read as local time
naive_timestamp(wall_clock, utc_offset) == wall_clock - utc_offset

\* generate_apple_developer_token: the claims of the token it signs
generate_apple_developer_token(key_readable, expiration_days, now, utc_offset) ==
    IF ~key_readable THEN [raised |-> TRUE]
    ELSE LET \* datetime.utcnow() + timedelta(days=...): a naive datetime
             expiration_time == now + Min(expiration_days, MAX_EXPIRATION_DAYS) * 86400 IN
         [raised |-> FALSE,
          iat |-> now,
          exp |-> naive_timestamp(expiration_time, utc_offset)]

Calls ==
    { [fn |-> "song_exists_in_chromadb", lookup |-> l, song_id |-> id, coll |-> c] :
          l \in {"ok", "raises"}, id \in TrackIds, c \in Collections }
      \cup UNION { { [fn |-> "get_catalog_song", song_id |-> id, x |-> x] :
                       x \in CatalogExchanges(SongPayloads(id)) } : id \in TrackIds }
      \cup { [fn |-> "get_catalog_playlist", x |-> x] :
                 x \in CatalogExchanges(PlaylistPayloads) }
      \cup { [fn |-> "generate_apple_developer_token", key_readable |-> r,
               expiration_days |-> d, now |-> t, utc_offset |-> o] :
                 r \in BOOLEAN, d \in RequestedDays, t \in Instants, o \in UtcOffsets }

InitCalls ==
    /\ InitBuilder
    /\ call \in Calls
    /\ ret = NoRet
    /\ InitQueryIdle

Returns(value) ==
    /\ ret' = [done |-> TRUE, value |-> value]
    /\ UNCHANGED <<call, builder_vars, query_vars>>

CallSongExists ==
    /\ call.fn = "song_exists_in_chromadb"
    /\ ~ret.done
    /\ Returns(song_exists_in_chromadb(call.lookup, call.song_id, call.coll))

CallGetCatalogSong ==
    /\ call.fn = "get_catalog_song"
    /\ ~ret.done
    /\ Returns(get_catalog_song(call.x))

CallGetCatalogPlaylist ==
    /\ call.fn = "get_catalog_playlist"
    /\ ~ret.done
    /\ Returns(get_catalog_playlist(call.x))

CallGenerateToken ==
    /\ call.fn = "generate_apple_developer_token"
    /\ ~ret.done
    /\ Returns(generate_apple_developer_token(call.key_readable, call.expiration_days,
                                              call.now, call.utc_offset))

NextCalls ==
    \/ CallSongExists
    \/ CallGetCatalogSong
    \/ CallGetCatalogPlaylist
    \/ CallGenerateToken

SpecCalls == InitCalls /\ [][NextCalls]_vars

\* ------------------------------------------------------------ query service
\* services/backend/server.py and services/query-client/query.py: the same
\* handlers over the same collection, with their own base of the audio URL.
MaxK == 2

Services == {"backend", "query_client"}
QueryIds == TrackIds \cup {"C"}
\* vectors the embedding server can return for a text
TextVectors == Vectors \cup {"v3"}
\* top_k of a request: an int, not validated
TopKs == -1..MaxK
\* whether an exception is caught by "except ValueError"
ExceptionClasses == {"ValueError", "Exception"}
Exceptions == { [cls |-> c, err |-> e] : c \in ExceptionClasses, e \in ErrTexts }

\* the collections the query service can find: what the builder stored
QueryCollections ==
    { c \in SUBSET { index_record(id, [name |-> "n1", previews |-> <<[url |-> "u1"]>>], v) :
                        id \in QueryIds, v \in Vectors } :
        \A r1 \in c, r2 \in c : r1.id = r2.id => r1 = r2 }

\* the index's cosine distance: the vectors are a quarter turn apart
Position(v) == IF v = "v1" THEN 0 ELSE IF v = "v2" THEN 1 ELSE 2
cosine_distance(u, v) ==
    IF Position(u) >= Position(v) THEN Position(u) - Position(v)
    ELSE Position(v) - Position(u)

\* collection.query(query_embeddings=[q], n_results=n): the n nearest records
\* in ascending distance, records at the same distance in any order
NearestLists(coll, q, n) ==
    LET m == Min(n, Cardinality(coll)) IN
    { l \in [1..m -> coll] :
        /\ \A a \in 1..m, b \in 1..m : a # b => l[a] # l[b]
        /\ \A a \in 1..m, b \in 1..m :
              a < b => cosine_distance(q, l[a].embedding) <= cosine_distance(q, l[b].embedding)
        /\ \A r \in coll :
              (\A a \in 1..m : l[a] # r) =>
                  \A a \in 1..m :
                      cosine_distance(q, l[a].embedding) <= cosine_distance(q, r.embedding) }

\* results['ids'][0], results['distances'][0], results['metadatas'][0]
query_results(l, q) ==
    [ids |-> [a \in 1..Len(l) |-> l[a].id],
     distances |-> [a \in 1..Len(l) |-> cosine_distance(q, l[a].embedding)],
     metadatas |-> [a \in 1..Len(l) |-> l[a].metadata]]

\* collection.get(ids=[song_id], include=['embeddings'])
get_with_embeddings(coll, song_id) ==
    LET found == collection_get(coll, song_id) IN
    IF found = {} THEN NoLookup
    ELSE LET r == CHOOSE x \in found : TRUE IN
         [raised |-> FALSE, ids |-> <<r.id>>, embeddings |-> <<r.embedding>>]

\* if not result['ids'] or len(result['embeddings']) == 0
not_found(lookup) == Len(lookup.ids) = 0 \/ Len(lookup.embeddings) = 0

not_found_error(song_id) ==
    [cls |-> "ValueError",
     err |-> <<"Song", "ID", song_id, "not", "found", "in", "database.">>]

\* a filter that lets every result through
keep_result_all(result_id, song_id) == TRUE

\* if result_id != song_id
keep_result(result_id, song_id) == result_id # song_id

\* the filter loop of query_music_by_id, from position k on
RECURSIVE filter_results(_, _, _, _)
filter_results(results, song_id, k, filtered) ==
    IF k > Len(results.ids) THEN filtered
    ELSE filter_results(results, song_id, k + 1,
             IF keep_result(results.ids[k], song_id)
             THEN [ids |-> Append(filtered.ids, results.ids[k]),
                   distances |-> Append(filtered.distances, results.distances[k]),
                   metadatas |-> Append(filtered.metadatas, results.metadatas[k])]
             ELSE filtered)

\* l[:top_k]
Slice(l, top_k) ==
    IF top_k >= 0 THEN SubSeq(l, 1, Min(top_k, Len(l)))
    ELSE SubSeq(l, 1, Len(l) + top_k)

\* the query asks for top_k only
neighbours_requested_no_self(top_k) == top_k

\* n_results=top_k + 1
neighbours_requested(top_k) == top_k + 1

\* a trim that takes the distances from the unfiltered list
filtered_results_misaligned(results, song_id, top_k) ==
    LET f == filter_results(results, song_id, 1, NoResults) IN
    [ids |-> Slice(f.ids, top_k),
     distances |-> Slice(results.distances, top_k),
     metadatas |-> Slice(f.metadatas, top_k)]

\* query_music_by_id after collection.query answered
filtered_results(results, song_id, top_k) ==
    LET f == filter_results(results, song_id, 1, NoResults) IN
    [ids |-> Slice(f.ids, top_k),
     distances |-> Slice(f.distances, top_k),
     metadatas |-> Slice(f.metadatas, top_k)]

\* get_audio_url (server.py) and get_minio_url (query.py)
get_audio_url(service, song_id) ==
    <<IF service = "backend" THEN "S3_BUCKET_URL" ELSE "MINIO_BASE_URL", "/", song_id, ".wav">>

\* a similarity that repeats the distance
cosine_similarity_as_distance(distance) == distance

\* cosine_similarity=1 - distance
cosine_similarity(distance) == 1 - distance

\* format_results: zip of the three lists
format_results(service, raw) ==
    IF Len(raw.ids) = 0 THEN <<>>
    ELSE [a \in 1..Min(Len(raw.ids), Min(Len(raw.distances), Len(raw.metadatas))) |->
            [id |-> raw.ids[a],
             distance |-> raw.distances[a],
             cosine_similarity |-> cosine_similarity(raw.distances[a]),
             metadata |-> raw.metadatas[a],
             audio_url |-> get_audio_url(service, raw.ids[a])]]

QueryResponse(results, query_type) ==
    [status |-> "200", results |-> results, query_type |-> query_type]

HTTPException(status_code, detail) == [status |-> status_code, detail |-> detail]

\* the except clauses of query_by_text and query_by_song_id
error_response(endpoint, exc) ==
    IF endpoint = "similar" /\ exc.cls = "ValueError"
    THEN HTTPException("404", exc.err)
    ELSE HTTPException("500", exc.err)

\* what requests.post / raise_for_status / response.json()['embedding'] do
EmbeddingServerOutcomes ==
    { [kind |-> "ok", embedding |-> v] : v \in TextVectors }
      \cup { [kind |-> "RequestException", err |-> e] : e \in ErrTexts }
      \cup { [kind |-> "raises", exc |-> x] : x \in Exceptions }

get_text_embedding(o) ==
    IF o.kind = "ok" THEN [raised |-> FALSE, embedding |-> o.embedding]
    ELSE IF o.kind = "RequestException"
    THEN [raised |-> TRUE,
          exc |-> [cls |-> "Exception",
                   err |-> <<"Failed", "to", "get", "embedding", "from", "server:">> \o o.err]]
    ELSE [raised |-> TRUE, exc |-> o.exc]

InitQuery ==
    /\ index \in QueryCollections
    /\ bucket = TRUE
    /\ objects = { <<r.id, ".wav">> : r \in index }
    /\ InitRun
    /\ call = NoCall
    /\ ret = NoRet
    /\ InitQueryIdle

Responds(resp) ==
    /\ response' = resp
    /\ qpc' = "responded"

\* POST /query/text arrives: query_by_text calls query_music
ReceiveTextQuery ==
    /\ qpc \in {"idle", "responded"}
    /\ \E service \in Services, k \in TopKs :
         request' = [endpoint |-> "text", service |-> service, top_k |-> k]
    /\ qpc' = "text_embed"
    /\ lookup_result' = NoLookup
    /\ query_embedding' = None
    /\ raw_results' = NoResults
    /\ response' = NoResponse
    /\ UNCHANGED <<builder_vars, call_vars, handlers>>

\* POST /query/similar arrives: query_by_song_id calls query_music_by_id
ReceiveSimilarQuery ==
    /\ qpc \in {"idle", "responded"}
    /\ \E service \in Services, id \in QueryIds, k \in TopKs :
         request' = [endpoint |-> "similar", service |-> service, song_id |-> id,
                     top_k |-> k]
    /\ qpc' = "similar_get"
    /\ lookup_result' = NoLookup
    /\ query_embedding' = None
    /\ raw_results' = NoResults
    /\ response' = NoResponse
    /\ UNCHANGED <<builder_vars, call_vars, handlers>>

\* query_music: get_text_embedding
GetTextEmbedding ==
    /\ qpc = "text_embed"
    /\ \E o \in EmbeddingServerOutcomes :
         LET e == get_text_embedding(o) IN
         IF e.raised
         THEN /\ Responds(error_response(request.endpoint, e.exc))
              /\ UNCHANGED query_embedding
         ELSE /\ query_embedding' = e.embedding
              /\ qpc' = "query"
              /\ UNCHANGED response
    /\ UNCHANGED <<request, lookup_result, raw_results, builder_vars, call_vars, handlers>>

\* query_music_by_id: collection.get and the not-found check
CollectionGet ==
    /\ qpc = "similar_get"
    /\ \/ \E x \in Exceptions :
            /\ lookup_result' = [raised |-> TRUE, ids |-> <<>>, embeddings |-> <<>>]
            /\ Responds(error_response(request.endpoint, x))
            /\ UNCHANGED query_embedding
       \/ LET lookup == get_with_embeddings(index, request.song_id) IN
          /\ lookup_result' = lookup
          /\ IF not_found(lookup)
             THEN /\ Responds(error_response(request.endpoint,
                                             not_found_error(request.song_id)))
                  /\ UNCHANGED query_embedding
             ELSE /\ query_embedding' = lookup.embeddings[1]
                  /\ qpc' = "query"
                  /\ UNCHANGED response
    /\ UNCHANGED <<request, raw_results, builder_vars, call_vars, handlers>>

\* n_results of the collection.query call of either mode
n_results(req) ==
    IF req.endpoint = "text" THEN req.top_k ELSE neighbours_requested(req.top_k)

\* what the handler answers once collection.query has returned raw
query_response(req, raw) ==
    IF req.endpoint = "text"
    THEN QueryResponse(format_results(req.service, raw), "text")
    ELSE QueryResponse(format_results(req.service,
                                      filtered_results(raw, req.song_id, req.top_k)),
                       "similarity")

\* collection.query, then the rest of the handler; the index rejects
\* n_results <= 0
CollectionQuery ==
    /\ qpc = "query"
    /\ \/ \E x \in Exceptions :
            /\ Responds(error_response(request.endpoint, x))
            /\ UNCHANGED raw_results
       \/ /\ n_results(request) > 0
          /\ \E l \in NearestLists(index, query_embedding, n_results(request)) :
               LET raw == query_results(l, query_embedding) IN
               /\ raw_results' = raw
               /\ Responds(query_response(request, raw))
    /\ UNCHANGED <<request, lookup_result, query_embedding, builder_vars, call_vars, handlers>>

NextQuery ==
    \/ ReceiveTextQuery
    \/ ReceiveSimilarQuery
    \/ GetTextEmbedding
    \/ CollectionGet
    \/ CollectionQuery

SpecQuery == InitQuery /\ [][NextQuery]_vars

\* ---------------------------------------- the two query services side by side
\* services/query-client/query.py, translated on its own
\* get_minio_url
get_minio_url(song_id) == <<"MINIO_BASE_URL", "/", song_id, ".wav">>

\* query.py's get_text_embedding
qc_get_text_embedding(o) ==
    IF o.kind = "ok" THEN [raised |-> FALSE, embedding |-> o.embedding]
    ELSE IF o.kind = "RequestException"
    THEN [raised |-> TRUE,
          exc |-> [cls |-> "Exception",
                   err |-> <<"Failed", "to", "get", "embedding", "from", "server:">> \o o.err]]
    ELSE [raised |-> TRUE, exc |-> o.exc]

\* the filter loop of query.py's query_music_by_id, from position k on
RECURSIVE qc_filter_results(_, _, _, _)
qc_filter_results(results, song_id, k, filtered) ==
    IF k > Len(results.ids) THEN filtered
    ELSE qc_filter_results(results, song_id, k + 1,
             IF results.ids[k] # song_id
             THEN [ids |-> Append(filtered.ids, results.ids[k]),
                   distances |-> Append(filtered.distances, results.distances[k]),
                   metadatas |-> Append(filtered.metadatas, results.metadatas[k])]
             ELSE filtered)

\* query.py's query_music_by_id after collection.query answered
qc_filtered_results(results, song_id, top_k) ==
    LET f == qc_filter_results(results, song_id, 1, NoResults) IN
    [ids |-> Slice(f.ids, top_k),
     distances |-> Slice(f.distances, top_k),
     metadatas |-> Slice(f.metadatas, top_k)]

\* query.py's format_results
qc_format_results(raw) ==
    IF Len(raw.ids) = 0 THEN <<>>
    ELSE [a \in 1..Min(Len(raw.ids), Min(Len(raw.distances), Len(raw.metadatas))) |->
            [id |-> raw.ids[a],
             distance |-> raw.distances[a],
             cosine_similarity |-> 1 - raw.distances[a],
             metadata |-> raw.metadatas[a],
             audio_url |-> get_minio_url(raw.ids[a])]]

\* except clauses that answer 500 whatever was raised
qc_error_response_always_500(endpoint, exc) == HTTPException("500", exc.err)

\* the except clauses of query.py's query_by_text and query_by_song_id
qc_error_response(endpoint, exc) ==
    IF endpoint = "similar" /\ exc.cls = "ValueError"
    THEN HTTPException("404", exc.err)
    ELSE HTTPException("500", exc.err)

\* what the index does with one collection.query call: it raises, or answers
\* with the first n of its ranking of the collection
QueryOutcomes(coll, q) ==
    { [fails |-> TRUE, exc |-> x, ranking |-> <<>>] : x \in Exceptions }
      \cup { [fails |-> FALSE, exc |-> x, ranking |-> l] :
               x \in Exceptions, l \in NearestLists(coll, q, Cardinality(coll)) }

\* the outcome of a collection.query call the handler never makes
NoQueryOutcome ==
    [fails |-> TRUE, exc |-> [cls |-> "Exception", err |-> <<>>], ranking |-> <<>>]

\* collection.query(query_embeddings=[q], n_results=n) under outcome qo
collection_query(qo, q, n) ==
    IF qo.fails \/ n <= 0 THEN [raised |-> TRUE, exc |-> qo.exc]
    ELSE [raised |-> FALSE,
          raw |-> query_results(SubSeq(qo.ranking, 1, Min(n, Len(qo.ranking))), q)]

\* server.py: POST /query/text from request to answer
query_by_text(top_k, eo, qo) ==
    LET req == [endpoint |-> "text", service |-> "backend", top_k |-> top_k]
        e == get_text_embedding(eo) IN
    IF e.raised THEN error_response("text", e.exc)
    ELSE LET a == collection_query(qo, e.embedding, n_results(req)) IN
         IF a.raised THEN error_response("text", a.exc)
         ELSE query_response(req, a.raw)

\* query.py: POST /query/text from request to answer
qc_query_by_text(top_k, eo, qo) ==
    LET e == qc_get_text_embedding(eo) IN
    IF e.raised THEN qc_error_response("text", e.exc)
    ELSE LET a == collection_query(qo, e.embedding, top_k) IN
         IF a.raised THEN qc_error_response("text", a.exc)
         ELSE QueryResponse(qc_format_results(a.raw), "text")

\* server.py: POST /query/similar from request to answer
query_by_song_id(song_id, top_k, coll, go, qo) ==
    LET req == [endpoint |-> "similar", service |-> "backend", song_id |-> song_id,
                top_k |-> top_k]
        lookup == get_with_embeddings(coll, song_id) IN
    IF go.fails THEN error_response("similar", go.exc)
    ELSE IF not_found(lookup)
    THEN error_response("similar", not_found_error(song_id))
    ELSE LET a == collection_query(qo, lookup.embeddings[1], n_results(req)) IN
         IF a.raised THEN error_response("similar", a.exc)
         ELSE query_response(req, a.raw)

\* query.py: POST /query/similar from request to answer
qc_query_by_song_id(song_id, top_k, coll, go, qo) ==
    LET lookup == get_with_embeddings(coll, song_id) IN
    IF go.fails THEN qc_error_response("similar", go.exc)
    ELSE IF Len(lookup.ids) = 0 \/ Len(lookup.embeddings) = 0
    THEN qc_error_response("similar",
             [cls |-> "ValueError",
              err |-> <<"Song", "ID", song_id, "not", "found", "in", "database.">>])
    ELSE LET a == collection_query(qo, lookup.embeddings[1], top_k + 1) IN
         IF a.raised THEN qc_error_response("similar", a.exc)
         ELSE QueryResponse(qc_format_results(
                                qc_filtered_results(a.raw, song_id, top_k)),
                            "similarity")

\* what collection.get does: it raises, or it answers
GetOutcomes ==
    { [fails |-> TRUE, exc |-> x] : x \in Exceptions } \cup { [fails |-> FALSE] }

\* one request with the collaborators' outcomes, put to both services
TextRequests ==
    UNION { { [fn |-> "query_by_text", top_k |-> k, coll |-> c, eo |-> eo, qo |-> qo] :
                k \in TopKs,
                qo \in IF eo.kind = "ok" THEN QueryOutcomes(c, eo.embedding)
                       ELSE {NoQueryOutcome} } :
            c \in QueryCollections, eo \in EmbeddingServerOutcomes }

SimilarRequests ==
    UNION { { [fn |-> "query_by_song_id", song_id |-> id, top_k |-> k, coll |-> c,
               go |-> go, qo |-> qo] :
                k \in TopKs, go \in GetOutcomes,
                qo \in IF collection_get(c, id) = {}
                       THEN {NoQueryOutcome}
                       ELSE QueryOutcomes(c, (CHOOSE r \in collection_get(c, id) : TRUE).embedding) } :
            c \in QueryCollections, id \in QueryIds }

InitServices ==
    /\ InitBuilder
    /\ call \in TextRequests \cup SimilarRequests
    /\ ret = NoRet
    /\ InitQueryIdle

BothAnswerText ==
    /\ call.fn = "query_by_text"
    /\ ~ret.done
    /\ Returns([backend |-> query_by_text(call.top_k, call.eo, call.qo),
                query_client |-> qc_query_by_text(call.top_k, call.eo, call.qo)])

BothAnswerSimilar ==
    /\ call.fn = "query_by_song_id"
    /\ ~ret.done
    /\ Returns([backend |-> query_by_song_id(call.song_id, call.top_k, call.coll,
                                             call.go, call.qo),
                query_client |-> qc_query_by_song_id(call.song_id, call.top_k,
                                                     call.coll, call.go, call.qo)])

NextServices ==
    \/ BothAnswerText
    \/ BothAnswerSimilar

SpecServices == InitServices /\ [][NextServices]_vars

\* ------------------------------------------- handler calls in flight together
\* a lookup that takes the record out of the collection
lookup_song_takes(coll, song_id) ==
    [lookup |-> get_with_embeddings(coll, song_id),
     coll |-> collection_delete(coll, song_id)]

\* query_music_by_id: collection.get, a read that leaves the collection as it is
lookup_song(coll, song_id) ==
    [lookup |-> get_with_embeddings(coll, song_id), coll |-> coll]

\* top_k of the requests in flight together: the smallest and the largest
ConcurrentTopKs == {1, MaxK}

\* lifespan has connected: the service holds a handle to the collection, whose
\* contents at that moment are kept in call
InitConcurrent ==
    /\ index \in QueryCollections
    /\ bucket = TRUE
    /\ objects = { <<r.id, ".wav">> : r \in index }
    /\ InitRun
    /\ call = [fn |-> "lifespan", coll |-> index]
    /\ ret = NoRet
    /\ InitQueryIdle

\* handler call h goes on to state now
Proceeds(h, now) ==
    /\ handlers' = [handlers EXCEPT ![h] = now]
    /\ UNCHANGED beside_handlers

\* a POST /query/text or /query/similar arrives and its handler is called
Receive(h) ==
    /\ handlers[h].qpc = "idle"
    /\ \/ \E k \in ConcurrentTopKs :
            Proceeds(h, [handlers[h] EXCEPT
                           !.request = [endpoint |-> "text", service |-> "backend",
                                        top_k |-> k],
                           !.qpc = "text_embed"])
       \/ \E id \in QueryIds, k \in ConcurrentTopKs :
            Proceeds(h, [handlers[h] EXCEPT
                           !.request = [endpoint |-> "similar", service |-> "backend",
                                        song_id |-> id, top_k |-> k],
                           !.qpc = "similar_get"])
    /\ index' = index

\* query_music: get_text_embedding
EmbedText(h) ==
    /\ handlers[h].qpc = "text_embed"
    /\ \E o \in EmbeddingServerOutcomes :
         LET e == get_text_embedding(o) IN
         IF e.raised
         THEN Proceeds(h, [handlers[h] EXCEPT
                             !.response = error_response("text", e.exc),
                             !.qpc = "responded"])
         ELSE Proceeds(h, [handlers[h] EXCEPT
                             !.query_embedding = e.embedding,
                             !.qpc = "query"])
    /\ index' = index

\* query_music_by_id: collection.get and the not-found check
LookupSong(h) ==
    /\ handlers[h].qpc = "similar_get"
    /\ \E go \in GetOutcomes :
         LET req == handlers[h].request
             g == lookup_song(index, req.song_id) IN
         IF go.fails
         THEN /\ Proceeds(h, [handlers[h] EXCEPT
                                !.response = error_response("similar", go.exc),
                                !.qpc = "responded"])
              /\ index' = index
         ELSE /\ index' = g.coll
              /\ IF not_found(g.lookup)
                 THEN Proceeds(h, [handlers[h] EXCEPT
                                     !.response = error_response("similar",
                                                      not_found_error(req.song_id)),
                                     !.qpc = "responded"])
                 ELSE Proceeds(h, [handlers[h] EXCEPT
                                     !.query_embedding = g.lookup.embeddings[1],
                                     !.qpc = "query"])

\* collection.query and the rest of the handler
QueryIndex(h) ==
    /\ handlers[h].qpc = "query"
    /\ \E qo \in QueryOutcomes(index, handlers[h].query_embedding) :
         LET req == handlers[h].request
             a == collection_query(qo, handlers[h].query_embedding, n_results(req)) IN
         Proceeds(h, [handlers[h] EXCEPT
                        !.response = IF a.raised
                                     THEN error_response(req.endpoint, a.exc)
                                     ELSE query_response(req, a.raw),
                        !.qpc = "responded"])
    /\ index' = index

NextConcurrent ==
    \/ \E h \in Handlers : Receive(h)
    \/ \E h \in Handlers : EmbedText(h)
    \/ \E h \in Handlers : LookupSong(h)
    \/ \E h \in Handlers : QueryIndex(h)

SpecConcurrent == InitConcurrent /\ [][NextConcurrent]_vars

\* ------------------------------------------------------------------ claims
SongPcs == {"ps_fetch", "ps_download", "dl_get", "dl_ffmpeg", "ps_converted",
            "ps_upload", "ps_embed", "ps_index", "ps_index_delete",
            "ps_index_add", "ps_return"}

TrackIdsOf(l) == [k \in 1..Len(l) |-> l[k].id]

\* C1: once the track list is fetched, process_song is called exactly once per
\* track, in list order and one at a time (the only call not yet counted is the
\* one in progress), and a run that returns its summary has visited every
\* track, whatever the outcomes of the earlier ones.
C1_EveryTrackOnceInOrder ==
    /\ pc \in SongPcs \cup {"loop"} =>
         /\ Len(visited) = (IF pc \in SongPcs THEN i + 1 ELSE i)
         /\ Len(visited) <= Len(track_list)
         /\ visited = SubSeq(TrackIdsOf(track_list), 1, Len(visited))
    /\ (pc = "returned" /\ pl_result.success) => visited = TrackIdsOf(track_list)

\* the second track is being processed although the first one failed
C1_Witness ==
    /\ pc = "ps_return"
    /\ i = 1
    /\ failed = 1
    /\ result.status = "success"

\* C2: whatever the collaborators do, process_song returns a result whose status
\* is success, skipped or failed, no exception reaches its caller, and a failed
\* result carries a non-empty message.
C2_TaggedResultNoException ==
    /\ pc = "ps_return" =>
         /\ result.status \in {"success", "skipped", "failed"}
         /\ result.status = "failed" => Len(result.message) > 0
    /\ setup_failure # "track"

\* an exception whose text is empty was caught and reported
C2_Witness ==
    /\ pc = "ps_return"
    /\ song_result.raised
    /\ result = Failed(<<"Error:">>)

StepOrder == <<"FETCH_METADATA", "DOWNLOAD_TRANSCODE", "UPLOAD", "EMBED", "INDEX">>
IsPipelineStep(s) == s.step # "EXISTS_CHECK"
PipelineSteps == SelectSeq(steps, IsPipelineStep)

\* C3: the steps of one process_song call are a prefix of FETCH_METADATA,
\* DOWNLOAD_TRANSCODE, UPLOAD, EMBED, INDEX (so each runs at most once), every
\* step before the last one succeeded, a failed step ends the call with status
\* failed, and the status is success exactly when all five steps succeeded.
C3_StepsInOrderNoRetry ==
    LET P == PipelineSteps IN
    /\ Len(P) <= Len(StepOrder)
    /\ \A k \in 1..Len(P) : P[k].step = StepOrder[k]
    /\ \A k \in 1..(Len(P) - 1) : P[k].outcome = "ok"
    /\ (Len(P) > 0 /\ P[Len(P)].outcome = "failed") =>
         (pc = "ps_return" /\ result.status = "failed")
    /\ pc = "ps_return" =>
         (result.status = "success" <=>
            (Len(P) = Len(StepOrder) /\ \A k \in 1..Len(P) : P[k].outcome = "ok"))

\* the embedding step failed after three successful steps: the call ended there
C3_Witness ==
    /\ pc = "ps_return"
    /\ Len(PipelineSteps) = 4
    /\ PipelineSteps[4] = [step |-> "EMBED", outcome |-> "failed"]
    /\ result.status = "failed"

\* C4: ingesting, with skip_existing enabled, a track id the index already
\* holds reports skipped and leaves the id's record (vector and metadata) as
\* it was.
C4_SkipLeavesRecordUnchanged ==
    (pc = "ps_return" /\ skip_existing /\ collection_get(index0, track_id) # {}) =>
        /\ result.status = "skipped"
        /\ collection_get(index, track_id) = collection_get(index0, track_id)

\* C5: the index never holds two records for one id, and a re-ingestion with
\* skip_existing disabled that ends in success leaves, for that id, exactly the
\* record built from the new vector and the new metadata.
C5_ReplaceNotDuplicate ==
    /\ \A id \in TrackIds : Cardinality(collection_get(index, id)) <= 1
    /\ (/\ pc = "ps_return"
        /\ ~skip_existing
        /\ collection_get(index0, track_id) # {}
        /\ result.status = "success") =>
           collection_get(index, track_id) =
               {index_record(track_id, attributes, embedding)}

\* the catalog answered 200 with a song that has no preview URL: no previews
\* list, an empty one, or a first preview without url
HasNoPreviewUrl(r) ==
    /\ ~r.raised
    /\ r.success
    /\ "data" \in DOMAIN r.data
    /\ Len(r.data.data) > 0
    /\ \/ "attributes" \notin DOMAIN r.data.data[1]
       \/ "previews" \notin DOMAIN r.data.data[1].attributes
       \/ Len(r.data.data[1].attributes.previews) = 0
       \/ "url" \notin DOMAIN r.data.data[1].attributes.previews[1]

Mentions(msg, w) == \E k \in 1..Len(msg) : msg[k] = w

\* C6: when the track payload has no preview URL, process_song has returned
\* failed with a reason that mentions "preview", and no download/transcode,
\* object-store, embedding or index step happened for the track.
C6_NoPreviewFailsBeforeAnyCall ==
    HasNoPreviewUrl(song_result) =>
        /\ pc = "ps_return"
        /\ result.status = "failed"
        /\ Mentions(result.message, "preview")
        /\ \A k \in 1..Len(steps) :
             steps[k].step \notin {"DOWNLOAD_TRANSCODE", "UPLOAD", "EMBED", "INDEX"}

\* a song whose first preview has no url was reported failed
C6_Witness ==
    /\ pc = "ps_return"
    /\ HasNoPreviewUrl(song_result)
    /\ "attributes" \in DOMAIN song_result.data.data[1]
    /\ "previews" \in DOMAIN song_result.data.data[1].attributes
    /\ Len(song_result.data.data[1].attributes.previews) > 0
    /\ result = Failed(<<"No", "preview", "URL", "available">>)

\* C7: when DOWNLOAD_TRANSCODE succeeded, the WAV file is gone when
\* process_song returns, whichever way it returns; outside a process_song call
\* no WAV file exists.
C7_WavRemovedOnEveryExit ==
    /\ (pc = "ps_return" /\ convert_result.success) =>
          convert_result.wav_path \notin fs
    /\ pc \notin SongPcs => \A f \in fs : f[1] # "wav"

\* the index step failed after the upload and the embedding: the WAV is gone
C7_Witness ==
    /\ pc = "ps_return"
    /\ convert_result.success
    /\ Len(PipelineSteps) = Len(StepOrder)
    /\ PipelineSteps[Len(StepOrder)].outcome = "failed"
    /\ result.status = "failed"

\* C8: when download_and_convert_preview returns after both temporary files
\* were created, the .m4a file no longer exists, and on success the one file
\* of the two that exists is the WAV whose path is returned.
C8_M4aRemovedOnEveryExit ==
    (pc = "ps_converted" /\ temp_wav # NoName) =>
        /\ temp_m4a \notin fs
        /\ convert_result.success =>
             /\ convert_result.wav_path = temp_wav
             /\ fs \cap {temp_m4a, temp_wav} = {convert_result.wav_path}

\* the download raised after the temporary files were created
C8_Witness ==
    /\ pc = "ps_converted"
    /\ temp_wav # NoName
    /\ ffmpeg_result = NoFfmpegResult
    /\ convert_result = download_except(<<"timeout">>)

\* text occurs in msg as a run of consecutive tokens
Carries(msg, text) ==
    \E k \in 0..(Len(msg) - Len(text)) :
        SubSeq(msg, k + 1, k + Len(text)) = text

\* C9: when the transcoder exits nonzero, download_and_convert_preview returns
\* a failure without WAV path whose message is "ffmpeg error:" followed by the
\* transcoder's stderr, and neither temporary file exists afterwards.
C9_TranscodeFailureCleansBoth ==
    (pc = "ps_converted" /\ ffmpeg_result.returncode \notin {None, "0"}) =>
        /\ ~convert_result.success
        /\ convert_result.wav_path = None
        /\ Carries(convert_result.message, ffmpeg_result.stderr)
        /\ convert_result.message = <<"ffmpeg", "error:">> \o ffmpeg_result.stderr
        /\ temp_m4a \notin fs
        /\ temp_wav \notin fs

\* ffmpeg exited 1 with a diagnostic on stderr
C9_Witness ==
    /\ pc = "ps_converted"
    /\ ffmpeg_result = [returncode |-> "1", stderr |-> <<"Invalid", "data">>]
    /\ ~convert_result.success

TokenCatalogCauses ==
    {"credentials", "key_file", "token",
     "playlist_fetch", "playlist_data", "playlist_tracks"}

\* C10 as stated: the run fails exactly when the token or catalog setup fails
\* (credentials, key file, token, playlist fetch), and succeeds otherwise.
C10_FailureOnlyOnTokenCatalogSetup ==
    pc = "returned" =>
        (~pl_result.success <=> setup_failure \in TokenCatalogCauses)

\* C10 amended: the run fails exactly when its setup fails, which includes the
\* connection to the vector index; once the track list is fetched the run
\* returns success with the counters of its tracks, however many failed.
C10_FailureOnlyOnSetup ==
    pc = "returned" =>
        IF setup_failure \in TokenCatalogCauses \cup {"index_connect"}
        THEN ~pl_result.success
        ELSE /\ pl_result.success
             /\ pl_result = [success |-> TRUE, total |-> Len(track_list),
                             processed |-> processed, skipped |-> skipped,
                             failed |-> failed]
             /\ processed + skipped + failed = Len(track_list)

\* every track of a two-track playlist failed and the run reports success
C10_Witness ==
    /\ pc = "returned"
    /\ pl_result.success
    /\ pl_result.total = MaxTracks
    /\ pl_result.failed = MaxTracks

\* C16: a track whose record is in the index (records enter the index only
\* by a successful ingestion) passes the existence check, and a skip-enabled
\* playlist run that reaches it counts it under skipped, not under processed
\* or failed.
C16_IngestedTrackCountedSkipped ==
    [][(pc = "ps_return" /\ skip_existing /\ collection_get(index0, track_id) # {})
          => /\ result.status = "skipped"
             /\ skipped' = skipped + 1
             /\ processed' = processed
             /\ failed' = failed]_vars

\* C18: for every requested validity in days the token expires
\* min(requested, 180) days after issue, so that its validity never exceeds
\* 180 days.
C18_ValidityClampedTo180Days ==
    (call.fn = "generate_apple_developer_token" /\ ret.done /\ ~ret.value.raised) =>
        LET validity == ret.value.exp - ret.value.iat IN
        /\ validity = Min(call.expiration_days, 180) * 86400
        /\ validity <= 180 * 86400

\* C19: get_catalog_playlist and get_catalog_song always return a tagged
\* result: success true with the status exactly when the HTTP status is 200,
\* success false with the received status for any other HTTP status, success
\* false with status None when the request failed at the network level.
C19_TaggedResultForEveryExchange ==
    (call.fn \in {"get_catalog_song", "get_catalog_playlist"} /\ ret.done) =>
        /\ ~ret.value.raised
        /\ call.x.status_code # None =>
              /\ ret.value.success <=> (call.x.status_code = "200")
              /\ ret.value.status_code = call.x.status_code
        /\ call.x.status_code = None =>
              /\ ~ret.value.success
              /\ ret.value.status_code = None

\* C20: song_exists_in_chromadb(id) is true if and only if a record with
\* that id is in the collection, whatever the id and the collection, also
\* when the lookup errors.
C20_ExistsIffPresent ==
    (call.fn = "song_exists_in_chromadb" /\ ret.done) =>
        (ret.value <=> (\E r \in call.coll : r.id = call.song_id))

ConfigInvalid == ~config.key_id \/ ~config.team_id \/ ~config.key_file
\* positions at which the run is about to call, or is inside a call to, the
\* token signer, the vector index, the catalog API, the object store, the
\* transcoder or the embedding server
CollaboratorPcs ==
    SongPcs \cup {"token", "connect", "fetch_playlist", "loop",
                  "ss_token", "ss_connect", "ss_fetch", "ss_call"}

\* C11: when the Apple key id or team id is unset, or the key file is
\* missing, process_playlist and process_single_song return failure before
\* any call to the token signer, the vector index, the catalog API, the
\* object store or the embedding server.
C11_InvalidConfigFailsBeforeAnyCall ==
    (caller # None /\ ConfigInvalid) =>
        /\ pc \in {"returned", "exited"}
        /\ pc \notin CollaboratorPcs
        /\ ~pl_result.success
        /\ setup_failure \in {"credentials", "key_file"}
        /\ Mentions(pl_result.message, "Apple")
        /\ steps = <<>>
        /\ visited = <<>>
        /\ temp_m4a = NoName
        /\ temp_wav = NoName
        /\ track_id = None

C11_Witness ==
    /\ pc = "returned"
    /\ caller = "process_single_song"
    /\ config.key_id /\ config.team_id /\ ~config.key_file
    /\ ~pl_result.success
    /\ index # {}

\* C17: a command line that performs a run (--playlist-id or --song-id, with
\* or without --no-skip-existing) exits with code 1 when the run reports
\* failure and with code 0 when it reports success.
C17_ExitCodeFollowsRunResult ==
    (pc = "exited" /\ (args.playlist_id \/ args.song_id # None)) =>
        /\ caller = (IF args.playlist_id THEN "process_playlist"
                     ELSE "process_single_song")
        /\ skip_existing = ~args.no_skip_existing
        /\ pl_result.success => exit_code = "0"
        /\ ~pl_result.success => exit_code = "1"
        /\ setup_failure # "none" => exit_code = "1"

C17_Witness ==
    /\ pc = "exited"
    /\ exit_code = "1"
    /\ ~args.playlist_id
    /\ args.song_id = "A"
    /\ args.no_skip_existing
    /\ setup_failure = "track"
    /\ ~ConfigInvalid

\* the records of the collection other than the queried one
OtherRecords == { r \in index : r.id # request.song_id }
Answered == qpc = "responded" /\ response.status = "200"

\* C12: the result list of a similarity-by-id query never contains the
\* queried song id (for any k >= 1 and any collection holding the queried
\* song and at least k+1 other records).
C12_NoSelfMatch ==
    (Answered /\ request.endpoint = "similar") =>
        \A a \in 1..Len(response.results) : response.results[a].id # request.song_id

C12_Witness ==
    /\ Answered
    /\ request.endpoint = "similar"
    /\ request.top_k >= 1
    /\ Cardinality(OtherRecords) >= request.top_k + 1
    /\ \E a \in 1..Len(raw_results.ids) : raw_results.ids[a] = request.song_id
    /\ Len(response.results) = request.top_k

\* C13: the number of results returned is min(k, available matches): all
\* records of the collection for the text query, all records other than the
\* queried id for the similarity-by-id query.
C13_ResultCount ==
    Answered =>
        Len(response.results) =
            Min(request.top_k,
                IF request.endpoint = "text" THEN Cardinality(index)
                ELSE Cardinality(OtherRecords))

C13_Witness ==
    /\ Answered
    /\ request.endpoint = "similar"
    /\ request.top_k = 2
    /\ Cardinality(OtherRecords) = 2
    /\ Len(raw_results.ids) = 3
    /\ Len(response.results) = 2

\* C14: /query/similar answers 404 when the requested id has no record and
\* 500 for any other error; /query/text answers any error with 500, never
\* 404; every error answer carries a detail string.
C14_NotFoundIs404OtherErrors500 ==
    (qpc = "responded" /\ response.status # "200") =>
        /\ "detail" \in DOMAIN response
        /\ response.status \in {"404", "500"}
        /\ request.endpoint = "text" => response.status = "500"
        /\ request.endpoint = "similar" =>
              (response.status = "404"
                  <=> (~lookup_result.raised /\ collection_get(index, request.song_id) = {}))

\* C15: every result's cosine_similarity is exactly 1 minus the distance
\* reported for that result.
C15_SimilarityIsOneMinusDistance ==
    Answered =>
        \A a \in 1..Len(response.results) :
            response.results[a].cosine_similarity = 1 - response.results[a].distance

C15_Witness ==
    /\ Answered
    /\ \E a \in 1..Len(response.results) :
          /\ response.results[a].distance = 2
          /\ response.results[a].cosine_similarity = -1
    /\ \E a \in 1..Len(response.results) :
          /\ response.results[a].distance = 1
          /\ response.results[a].cosine_similarity = 0

\* C23: all through the loop of process_playlist the three counters add up to
\* the number of tracks whose process_song call has returned, the return of a
\* call raises exactly one counter by one, no other step of the loop touches
\* them, and the summary of a run that got through the list reports
\* total = processed + skipped + failed = the length of the fetched list.
C23_CountersPartitionTracks ==
    [][
        /\ (pc' \in SongPcs \cup {"loop"}) =>
              (/\ processed' + skipped' + failed' = i'
               /\ i' <= Len(track_list'))
        /\ (pc = "ps_return" /\ pc' = "loop") =>
              (\/ processed' = processed + 1 /\ UNCHANGED <<skipped, failed>>
               \/ skipped' = skipped + 1 /\ UNCHANGED <<processed, failed>>
               \/ failed' = failed + 1 /\ UNCHANGED <<processed, skipped>>)
        /\ (pc \in SongPcs \cup {"loop"} /\ pc # "ps_return") =>
              UNCHANGED counters
        /\ (pc' = "returned" /\ pl_result'.success) =>
              (/\ pl_result'.total = Len(track_list')
               /\ pl_result'.total = pl_result'.processed + pl_result'.skipped
                                        + pl_result'.failed
               /\ <<pl_result'.processed, pl_result'.skipped,
                     pl_result'.failed>> = counters')
    ]_vars

\* a run over two tracks returned a summary of one skipped and one failed
C23_Witness ==
    /\ pc = "returned"
    /\ pl_result = playlist_summary(2, 0, 1, 1)

\* C24: at every moment of any sequence of ingestion runs, each record of the
\* index has its audio object <track_id>.wav in the object store (whose bucket
\* exists); an object may be there without a record.
C24_IndexedRecordHasAudioObject ==
    /\ \A r \in index : <<r.id, ".wav">> \in objects
    /\ index # {} => bucket

\* a run ended with track A indexed and the audio of B stored without a record
C24_Witness ==
    /\ pc = "returned"
    /\ collection_get(index, "A") # {}
    /\ collection_get(index, "B") = {}
    /\ <<"B", ".wav">> \in objects

\* C27: a process_song call that ends with status failed leaves the index
\* exactly as it was when the call started; in particular a re-ingestion of an
\* indexed id whose index step fails still finds the old record, with its old
\* vector and metadata.
C27_FailedCallLeavesIndexUnchanged ==
    (pc = "ps_return" /\ result.status = "failed") => index = index0

\* C26: while add_song_to_chromadb re-ingests, with skip_existing disabled, an
\* id the index held when the call started, every intermediate state of the
\* index still has a record for that id: a similarity query on the id reading
\* the index at that moment finds it (no 404) and an existence check whose
\* lookup answers reports it present.
C26_RecordVisibleThroughoutReingest ==
    (/\ pc \in {"ps_index", "ps_index_delete", "ps_index_add"}
     /\ ~skip_existing
     /\ collection_get(index0, track_id) # {}) =>
        /\ collection_get(index, track_id) # {}
        /\ ~not_found(get_with_embeddings(index, track_id))
        /\ song_exists_in_chromadb("ok", track_id, index)

\* C25: when process_song reports a track skipped, in a playlist run or in a
\* single-song run, the existence check is the only collaborator call made for
\* that track: no catalog fetch, no download or transcode, no upload, no
\* embedding call, and the index is as it was.
C25_SkippedTrackOnlyExistenceCheck ==
    (pc = "ps_return" /\ result.status = "skipped") =>
        /\ steps = <<[step |-> "EXISTS_CHECK", outcome |-> "done"]>>
        /\ index = index0
        /\ temp_m4a = NoName
        /\ temp_wav = NoName
        /\ song_result = NoSongResult
        /\ embedding = None

\* C22: the results of a 200 answer of either mode are an order-preserving
\* subsequence of the match list the index returned, hence in ascending
\* distance; id, distance and metadata of a result come from one and the same
\* match, and its audio URL is <base>/<id>.wav of its own id.
C22_ResultsAlignedSubsequence ==
    Answered =>
        LET res == response.results
            n == Len(res)
            m == Len(raw_results.ids) IN
        /\ \E f \in [1..n -> 1..m] :
             /\ \A a \in 1..n, b \in 1..n : a < b => f[a] < f[b]
             /\ \A a \in 1..n :
                  /\ res[a].id = raw_results.ids[f[a]]
                  /\ res[a].distance = raw_results.distances[f[a]]
                  /\ res[a].metadata = raw_results.metadatas[f[a]]
        /\ \A a \in 1..n, b \in 1..n : a < b => res[a].distance <= res[b].distance
        /\ \A a \in 1..n :
             /\ res[a].metadata.song_id = res[a].id
             /\ res[a].audio_url = get_audio_url(request.service, res[a].id)
             /\ \E r \in index :
                  /\ r.id = res[a].id
                  /\ r.metadata = res[a].metadata
                  /\ cosine_distance(query_embedding, r.embedding) = res[a].distance

\* the queried song was the second of three matches: the answer is the first
\* and the third, the farther one last
C22_Witness ==
    /\ Answered
    /\ request.endpoint = "similar"
    /\ Len(raw_results.ids) = 3
    /\ raw_results.ids[2] = request.song_id
    /\ Len(response.results) = 2
    /\ response.results[1].id = raw_results.ids[1]
    /\ response.results[2].id = raw_results.ids[3]
    /\ response.results[1].distance < response.results[2].distance

\* C28: put to both services, the same request with the same index contents
\* and the same collaborator outcomes gets the same HTTP status; a 200 answer
\* has the same query type and the same results in the same order, with equal
\* id, distance, cosine similarity and metadata, and audio URLs that differ in
\* their base only.
C28_ServicesAnswerAlike ==
    (ret.done /\ call.fn \in {"query_by_text", "query_by_song_id"}) =>
        LET b == ret.value.backend
            q == ret.value.query_client IN
        /\ b.status = q.status
        /\ b.status = "200" =>
             /\ b.query_type = q.query_type
             /\ Len(b.results) = Len(q.results)
             /\ \A a \in 1..Len(b.results) :
                  /\ b.results[a].id = q.results[a].id
                  /\ b.results[a].distance = q.results[a].distance
                  /\ b.results[a].cosine_similarity = q.results[a].cosine_similarity
                  /\ b.results[a].metadata = q.results[a].metadata
                  /\ Tail(b.results[a].audio_url) = Tail(q.results[a].audio_url)
        /\ b.status # "200" => b.detail = q.detail

\* both services answered a similarity query with two results, whose audio
\* URLs differ
C28_Witness ==
    /\ ret.done
    /\ call.fn = "query_by_song_id"
    /\ ret.value.backend.status = "200"
    /\ Len(ret.value.backend.results) = 2
    /\ Len(ret.value.query_client.results) = 2
    /\ ret.value.backend.results[1].audio_url # ret.value.query_client.results[1].audio_url

\* whether resp is an answer the service gives to req served alone against coll
AnswersAlone(req, coll, resp) ==
    IF req.endpoint = "text"
    THEN \E eo \in EmbeddingServerOutcomes :
            \E qo \in IF eo.kind = "ok" THEN QueryOutcomes(coll, eo.embedding)
                       ELSE {NoQueryOutcome} :
               resp = query_by_text(req.top_k, eo, qo)
    ELSE \E go \in GetOutcomes :
            \E qo \in IF collection_get(coll, req.song_id) = {}
                       THEN {NoQueryOutcome}
                       ELSE QueryOutcomes(coll,
                                (CHOOSE r \in collection_get(coll, req.song_id) :
                                     TRUE).embedding) :
               resp = query_by_song_id(req.song_id, req.top_k, coll, go, qo)

\* C21: no step of a handler call changes the index, whatever other calls are
\* in flight, and however the steps of concurrent text and similarity requests
\* interleave, the answer each request gets is one the service gives to that
\* request served alone against the index contents the service started with.
C21_ConcurrentRequestsIndependent ==
    [][
        /\ index' = call.coll
        /\ \A h \in Handlers :
             (handlers[h].qpc # "responded" /\ handlers'[h].qpc = "responded") =>
                 AnswersAlone(handlers'[h].request, call.coll, handlers'[h].response)
    ]_vars

\* a text request was answered 200 while a similarity request on a song of the
\* index was between its lookup and its query
C21_Witness ==
    /\ handlers["first"].qpc = "responded"
    /\ handlers["first"].request.endpoint = "text"
    /\ handlers["first"].response.status = "200"
    /\ handlers["second"].qpc = "query"
    /\ handlers["second"].request.endpoint = "similar"
    /\ handlers["second"].request.song_id \in { r.id : r \in index }

====
